---- MODULE Spec2Model ----
(***************************************************************************)
(* Model of the admin pages of the portfolio site:                         *)
(*   AdminBlog     (src/pages/admin/AdminProjects.tsx, lines 318-503)      *)
(*   AdminProjects (src/pages/admin/AdminProjects.tsx, lines 13-307)       *)
(* Strings are sequences of one-character strings, so that trim, length,   *)
(* number formatting, URL parsing and JSON encoding are computed.          *)
(* A nullable value is a sequence of length 0 (null) or 1.                 *)
(*   Image         (src/components/Image.tsx)                              *)
(***************************************************************************)
EXTENDS Integers, Sequences, FiniteSets, TLC

VARIABLES
    page,            \* which admin page is mounted: "blog" or "projects"
    clock,           \* last wall-clock reading (Date.now())
    blogPc,          \* AdminBlog: "init" | "mounted" | "crashed"
    posts,           \* AdminBlog useState posts
    editingPost,     \* AdminBlog useState editingPost (<<>> is null)
    blogFormData,    \* AdminBlog useState formData
    blogFormErrors,  \* AdminBlog useState formErrors
    storage,         \* localStorage item 'blogPosts' (<<>> is null)
    projPc,          \* AdminProjects: where its async handlers stand
    projects,        \* AdminProjects useState projects
    editingProject,  \* AdminProjects useState editingProject (<<>> is null)
    loading,         \* AdminProjects useState loading
    error,           \* AdminProjects useState error ("null" is null)
    formData,        \* AdminProjects useState formData
    formErrors,      \* AdminProjects useState formErrors
    request,         \* the projectsApi call in flight (<<>> is none)
    server,          \* the remote collection behind projectsApi
    nextId,          \* the remote service's id counter
    inputs,          \* what the user types into the project form in this session
    confirmed,       \* window.confirm was answered yes for the delete under way
    imgPc,           \* Image: "init" | "mounted"
    imgProps,        \* Image: the props of the last render
    imgError,        \* Image useState error
    imgFailed,       \* Image: its img element has fired an error event
    lastOp           \* the handler that ran last, with its inputs

blogVars == <<blogPc, posts, editingPost, blogFormData, blogFormErrors, storage>>
projVars == <<projPc, projects, editingProject, loading, error, formData,
              formErrors, request, server, nextId>>
imgVars == <<imgPc, imgProps, imgError, imgFailed>>
envVars == <<page, inputs>>
vars == <<envVars, clock, blogVars, projVars, imgVars, confirmed, lastOp>>

-----------------------------------------------------------------------------
(* Bounds of the model *)
MaxPosts == 2
MaxClock == 2
MaxProjects == 1

(* Program constants *)
MinTitleLen == 3
MinContentLen == 50
MinDescriptionLen == 10

-----------------------------------------------------------------------------
(* Strings *)

Rep(c, n) == [i \in 1..n |-> c]

IsSpace(c) == c = " "

RECURSIVE TrimStart(_)
TrimStart(s) ==
    IF s = <<>> THEN s
    ELSE IF IsSpace(Head(s)) THEN TrimStart(Tail(s)) ELSE s

RECURSIVE TrimEnd(_)
TrimEnd(s) ==
    IF s = <<>> THEN s
    ELSE IF IsSpace(s[Len(s)]) THEN TrimEnd(SubSeq(s, 1, Len(s) - 1)) ELSE s

\* String.prototype.trim
trim(s) == TrimEnd(TrimStart(s))

Digits == <<"0", "1", "2", "3", "4", "5", "6", "7", "8", "9">>

\* Number.prototype.toString for a non-negative integer
RECURSIVE toString(_)
toString(n) ==
    IF n < 10 THEN <<Digits[n + 1]>>
    ELSE toString(n \div 10) \o <<Digits[(n % 10) + 1]>>

\* Date.prototype.toISOString of the instant t (shape only: digits then Z)
toISOString(t) == toString(t) \o <<"Z">>

-----------------------------------------------------------------------------
(* JSON encoding of the posts collection, as a sequence of tokens *)

Tok(t, v) == [t |-> t, v |-> v]
LBracket == Tok("[", "")
RBracket == Tok("]", "")
LBrace == Tok("{", "")
RBrace == Tok("}", "")
Key(k) == Tok("key", k)
Str(s) == Tok("str", s)

PostKeys == <<"id", "title", "content", "date">>
ObjLen == 2 + 2 * Len(PostKeys)

\* A wrong encoder: the date is written empty
StringifyPostNoDate(p) ==
    <<LBrace, Key("id"), Str(p.id), Key("title"), Str(p.title),
      Key("content"), Str(p.content), Key("date"), Str(<<>>), RBrace>>

StringifyPost(p) ==
    <<LBrace, Key("id"), Str(p.id), Key("title"), Str(p.title),
      Key("content"), Str(p.content), Key("date"), Str(p.date), RBrace>>

RECURSIVE StringifyItems(_)
StringifyItems(ps) ==
    IF ps = <<>> THEN <<>>
    ELSE StringifyPost(Head(ps)) \o StringifyItems(Tail(ps))

\* JSON.stringify(updatedPosts)
JSONstringify(ps) == <<LBracket>> \o StringifyItems(ps) \o <<RBracket>>

\* One object of the text, or a failure
ObjectOk(ts) ==
    /\ Len(ts) = ObjLen
    /\ ts[1].t = LBrace.t
    /\ ts[ObjLen].t = RBrace.t
    /\ \A k \in 1..Len(PostKeys) :
          /\ ts[2 * k].t = "key"
          /\ ts[2 * k].v = PostKeys[k]
          /\ ts[2 * k + 1].t = "str"

ParsePost(ts) ==
    [id |-> ts[3].v, title |-> ts[5].v, content |-> ts[7].v, date |-> ts[9].v]

RECURSIVE ParseItems(_)
ParseItems(ts) ==
    IF ts = <<>> THEN [ok |-> TRUE, value |-> <<>>]
    ELSE IF Len(ts) < ObjLen \/ ~ObjectOk(SubSeq(ts, 1, ObjLen))
         THEN [ok |-> FALSE, value |-> <<>>]
         ELSE LET rest == ParseItems(SubSeq(ts, ObjLen + 1, Len(ts)))
              IN  [ok |-> rest.ok,
                   value |-> IF rest.ok
                             THEN <<ParsePost(SubSeq(ts, 1, ObjLen))>> \o rest.value
                             ELSE <<>>]

\* JSON.parse(storedPosts): ok = FALSE stands for the SyntaxError it throws
JSONparse(ts) ==
    IF Len(ts) < 2 \/ ts[1].t # LBracket.t \/ ts[Len(ts)].t # RBracket.t
    THEN [ok |-> FALSE, value |-> <<>>]
    ELSE ParseItems(SubSeq(ts, 2, Len(ts) - 1))

-----------------------------------------------------------------------------
(* Inputs *)

\* Values typed into the title input
TitleInputs ==
    { <<" ", " ", " ">>, <<"a", "b">>, <<"a", " ", " ">>, <<"a", "b", "c">> }

\* Values typed into the content textarea
ContentInputs ==
    { Rep("x", MinContentLen - 1), Rep("x", MinContentLen) }

\* A collection written by an earlier session, and a text that does not parse
StoredPost ==
    [id |-> toString(0), title |-> <<"a", "b", "c">>,
     content |-> Rep("x", MinContentLen), date |-> toISOString(0)]

MalformedText == <<LBracket, LBrace>>

StorageInits ==
    { <<>>, <<JSONstringify(<<>>)>>, <<JSONstringify(<<StoredPost>>)>>,
      <<MalformedText>> }

NoOp == [kind |-> "none", id |-> <<>>]
Op(kind, id) == [kind |-> kind, id |-> id]

EmptyBlogForm == [title |-> <<>>, content |-> <<>>]
Undefined == "undefined"

-----------------------------------------------------------------------------
(* AdminBlog *)

\* A wrong validateForm: the required checks test the value untrimmed
BlogErrorsUntrimmed(fd) ==
    LET t == IF fd.title = <<>> THEN "Baslik zorunludur"
             ELSE IF Len(fd.title) < MinTitleLen
                  THEN "Baslik en az 3 karakter olmalidir"
                  ELSE Undefined
        c == IF fd.content = <<>> THEN "Icerik zorunludur"
             ELSE IF Len(fd.content) < MinContentLen
                  THEN "Icerik en az 50 karakter olmalidir"
                  ELSE Undefined
        keys == {f \in {"title", "content"} :
                    \/ f = "title" /\ t # Undefined
                    \/ f = "content" /\ c # Undefined}
    IN  [f \in keys |-> IF f = "title" THEN t ELSE c]

\* The errors object validateForm builds
BlogErrors(fd) ==
    LET t == IF trim(fd.title) = <<>> THEN "Baslik zorunludur"
             ELSE IF Len(fd.title) < MinTitleLen
                  THEN "Baslik en az 3 karakter olmalidir"
                  ELSE Undefined
        c == IF trim(fd.content) = <<>> THEN "Icerik zorunludur"
             ELSE IF Len(fd.content) < MinContentLen
                  THEN "Icerik en az 50 karakter olmalidir"
                  ELSE Undefined
        keys == {f \in {"title", "content"} :
                    \/ f = "title" /\ t # Undefined
                    \/ f = "content" /\ c # Undefined}
    IN  [f \in keys |-> IF f = "title" THEN t ELSE c]

\* { ...formErrors, title: undefined }
ClearTitleError(errs) ==
    [f \in DOMAIN errs \cup {"title"} |->
        IF f = "title" THEN Undefined ELSE errs[f]]

\* The record handleSubmit builds: editingPost?.id || Date.now().toString(), ...
NewPost(editing, fd, now) ==
    [id |-> IF editing # <<>> /\ editing[1].id # <<>>
            THEN editing[1].id ELSE toString(now),
     title |-> fd.title,
     content |-> fd.content,
     date |-> IF editing # <<>> /\ editing[1].date # <<>>
              THEN editing[1].date ELSE toISOString(now)]

\* A wrong update: the record is appended when no record carries the edited id
UpdatedPostsUpsert(ps, editing, newPost) ==
    IF editing # <<>> /\ \E i \in 1..Len(ps) : ps[i].id = editing[1].id
    THEN [i \in 1..Len(ps) |-> IF ps[i].id = editing[1].id THEN newPost ELSE ps[i]]
    ELSE Append(ps, newPost)

\* posts.map(p => p.id === editingPost.id ? newPost : p)  /  [...posts, newPost]
UpdatedPosts(ps, editing, newPost) ==
    IF editing # <<>>
    THEN [i \in 1..Len(ps) |-> IF ps[i].id = editing[1].id THEN newPost ELSE ps[i]]
    ELSE Append(ps, newPost)

\* A wrong delete: posts.splice(posts.findIndex(p => p.id === id), 1), which
\* drops one record only, and the last one when no record matches
FilterPostsSplice(ps, id) ==
    LET hits == {i \in 1..Len(ps) : ps[i].id = id}
        at == IF hits = {} THEN Len(ps)
              ELSE CHOOSE i \in hits : \A j \in hits : i <= j
    IN  [k \in 1..(IF ps = <<>> THEN 0 ELSE Len(ps) - 1) |->
            IF k < at THEN ps[k] ELSE ps[k + 1]]

\* posts.filter(p => p.id !== id)
FilterPosts(ps, id) == SelectSeq(ps, LAMBDA p : p.id # id)

BlogMount ==
    /\ page = "blog"
    /\ blogPc = "init"
    /\ IF storage = <<>> \/ storage[1] = <<>>
       THEN /\ blogPc' = "mounted"
            /\ posts' = posts
       ELSE LET parsed == JSONparse(storage[1])
            IN  IF parsed.ok
                THEN /\ blogPc' = "mounted"
                     /\ posts' = parsed.value
                ELSE /\ blogPc' = "crashed"
                     /\ posts' = posts
    /\ lastOp' = Op("blogMount", <<>>)
    /\ UNCHANGED <<projVars, envVars, imgVars, confirmed, clock, editingPost, blogFormData, blogFormErrors, storage>>

BlogChangeTitle ==
    /\ page = "blog"
    /\ blogPc = "mounted"
    /\ \E v \in TitleInputs :
          /\ v # blogFormData.title
          /\ blogFormData' = [blogFormData EXCEPT !.title = v]
    /\ blogFormErrors' = ClearTitleError(blogFormErrors)
    /\ lastOp' = Op("blogChangeTitle", <<>>)
    /\ UNCHANGED <<projVars, envVars, imgVars, confirmed, clock, blogPc, posts, editingPost, storage>>

BlogChangeContent ==
    /\ page = "blog"
    /\ blogPc = "mounted"
    /\ \E v \in ContentInputs :
          /\ v # blogFormData.content
          /\ blogFormData' = [blogFormData EXCEPT !.content = v]
    /\ lastOp' = Op("blogChangeContent", <<>>)
    /\ UNCHANGED <<projVars, envVars, imgVars, confirmed, clock, blogPc, posts, editingPost, blogFormErrors, storage>>

BlogSubmit ==
    /\ page = "blog"
    /\ blogPc = "mounted"
    /\ LET errors == BlogErrors(blogFormData)
       IN  /\ blogFormErrors' = errors
           /\ IF DOMAIN errors # {}
              THEN /\ lastOp' = Op("blogSubmitRejected", <<>>)
                   /\ UNCHANGED <<clock, posts, editingPost, blogFormData, storage>>
              ELSE \E now \in clock..MaxClock :
                      LET newPost == NewPost(editingPost, blogFormData, now)
                          updatedPosts == UpdatedPosts(posts, editingPost, newPost)
                      IN  /\ Len(updatedPosts) <= MaxPosts
                          /\ clock' = now
                          /\ posts' = updatedPosts
                          /\ storage' = <<JSONstringify(updatedPosts)>>
                          /\ editingPost' = <<>>
                          /\ blogFormData' = EmptyBlogForm
                          /\ lastOp' = IF editingPost # <<>>
                                        THEN Op("blogUpdate", editingPost[1].id)
                                        ELSE Op("blogCreate", <<>>)
    /\ UNCHANGED <<projVars, envVars, imgVars, confirmed, blogPc>>

BlogEdit ==
    /\ page = "blog"
    /\ blogPc = "mounted"
    /\ \E i \in 1..Len(posts) :
          /\ editingPost' = <<posts[i]>>
          /\ blogFormData' = [title |-> posts[i].title, content |-> posts[i].content]
          /\ lastOp' = Op("blogEdit", <<>>)
    /\ UNCHANGED <<projVars, envVars, imgVars, confirmed, clock, blogPc, posts, blogFormErrors, storage>>

\* An id no record carries: handleDelete accepts any string
AbsentId == <<"n", "o", "n", "e">>

BlogDelete ==
    /\ page = "blog"
    /\ blogPc = "mounted"
    /\ \E id \in {posts[i].id : i \in 1..Len(posts)} \cup {AbsentId} :
          LET updatedPosts == FilterPosts(posts, id)
          IN  /\ posts' = updatedPosts
              /\ storage' = <<JSONstringify(updatedPosts)>>
              /\ lastOp' = Op("blogDelete", id)
    /\ UNCHANGED <<projVars, envVars, imgVars, confirmed, clock, blogPc, editingPost, blogFormData, blogFormErrors>>

\* The cancel button, rendered when editingPost is set, runs resetForm
BlogCancel ==
    /\ page = "blog"
    /\ blogPc = "mounted"
    /\ editingPost # <<>>
    /\ editingPost' = <<>>
    /\ blogFormData' = EmptyBlogForm
    /\ lastOp' = Op("blogCancel", <<>>)
    /\ UNCHANGED <<projVars, envVars, imgVars, confirmed, clock, blogPc, posts, blogFormErrors, storage>>

-----------------------------------------------------------------------------
(* new URL(url), as isValidUrl uses it *)

Alpha ==
    {"a", "b", "c", "d", "e", "g", "h", "l", "m", "n", "o", "p", "r", "s", "t", "u",
     "x", "y"}
SchemeChars == Alpha \cup {Digits[i] : i \in 1..Len(Digits)} \cup {"+", "-", "."}
SpecialSchemes ==
    { <<"h", "t", "t", "p">>, <<"h", "t", "t", "p", "s">>, <<"f", "t", "p">>,
      <<"w", "s">>, <<"w", "s", "s">> }

\* Index of the first occurrence of c in s, or 0
IndexOf(s, c) ==
    IF \E i \in 1..Len(s) : s[i] = c
    THEN CHOOSE i \in 1..Len(s) : s[i] = c /\ \A j \in 1..(i - 1) : s[j] # c
    ELSE 0

RECURSIVE SkipSlashes(_)
SkipSlashes(s) ==
    IF s # <<>> /\ Head(s) = "/" THEN SkipSlashes(Tail(s)) ELSE s

RECURSIVE HostOf(_)
HostOf(s) ==
    IF s = <<>> \/ Head(s) \in {"/", "?", "#"} THEN <<>>
    ELSE <<Head(s)>> \o HostOf(Tail(s))

\* TRUE when new URL(url) returns, FALSE when it throws: an absolute URL has a
\* scheme, and a special scheme (http, https, ...) needs a host
UrlParses(url) ==
    LET u == trim(url)
        i == IndexOf(u, ":")
    IN  /\ i > 1
        /\ u[1] \in Alpha
        /\ \A j \in 2..(i - 1) : u[j] \in SchemeChars
        /\ SubSeq(u, 1, i - 1) \in SpecialSchemes =>
              LET host == HostOf(SkipSlashes(SubSeq(u, i + 1, Len(u))))
              IN  host # <<>> /\ \A k \in 1..Len(host) : host[k] # " "

isValidUrl(url) == UrlParses(url)

-----------------------------------------------------------------------------
(* AdminProjects *)

NoError == "null"
LoadErrorMsg == "Projeler yuklenirken bir hata olustu"
\* A catch block that logs and sets no banner
SubmitErrorUnset == NoError
SubmitErrorMsg == "Islem sirasinda bir hata olustu"
DeleteErrorMsg == "Silme islemi sirasinda bir hata olustu"

EmptyForm ==
    [title |-> <<>>, description |-> <<>>, image |-> <<>>, link |-> <<>>,
     tags |-> <<>>]

\* What a session's user types: one who fills in and files projects, and one
\* who pastes addresses that are no URLs
InputProfiles ==
    { [title |-> { <<"a", "b", "c">> },
       description |-> { Rep("d", MinDescriptionLen) },
       image |-> {},
       link |-> {},
       tags |-> { <<"r", ",", " ", ",", "s", " ">> }],
      [title |-> {},
       description |-> {},
       image |-> { <<"n", "o", "t", "-", "a", "-", "u", "r", "l">> },
       link |-> { <<"h", "t", "t", "p", ":">> },
       tags |-> {}] }

\* A project the remote service already holds (no image, no link)
ServerProject ==
    [id |-> toString(0), title |-> <<"a", "b", "c">>,
     description |-> Rep("d", MinDescriptionLen), image |-> <<>>, link |-> <<>>,
     date |-> toISOString(0), tags |-> <<>>]

ServerInits == { <<>>, <<ServerProject>> }

Call(op, id, data) == [op |-> op, id |-> id, data |-> data]

\* String.prototype.split(sep)
RECURSIVE split(_, _)
split(s, sep) ==
    LET i == IndexOf(s, sep)
    IN  IF i = 0 THEN <<s>>
        ELSE <<SubSeq(s, 1, i - 1)>> \o split(SubSeq(s, i + 1, Len(s)), sep)

\* e.target.value.split(',').map(tag => tag.trim()).filter(tag => tag !== '')
TagsArray(value) ==
    LET parts == split(value, ",")
    IN  SelectSeq([i \in 1..Len(parts) |-> trim(parts[i])], LAMBDA t : t # <<>>)

\* A wrong validateForm: one else-if chain over the fields, which stops at
\* the first field that fails
ProjErrorsFirstOnly(fd) ==
    IF trim(fd.title) = <<>> THEN [f \in {"title"} |-> "Baslik zorunludur"]
    ELSE IF Len(fd.title) < MinTitleLen
    THEN [f \in {"title"} |-> "Baslik en az 3 karakter olmalidir"]
    ELSE IF trim(fd.description) = <<>>
    THEN [f \in {"description"} |-> "Aciklama zorunludur"]
    ELSE IF Len(fd.description) < MinDescriptionLen
    THEN [f \in {"description"} |-> "Aciklama en az 10 karakter olmalidir"]
    ELSE IF fd.image # <<>> /\ ~isValidUrl(fd.image)
    THEN [f \in {"image"} |-> "Gecerli bir URL giriniz"]
    ELSE IF fd.link # <<>> /\ ~isValidUrl(fd.link)
    THEN [f \in {"link"} |-> "Gecerli bir URL giriniz"]
    ELSE [f \in {} |-> Undefined]

\* The errors object validateForm builds
ProjErrors(fd) ==
    LET msg == [
            title |->
                IF trim(fd.title) = <<>> THEN "Baslik zorunludur"
                ELSE IF Len(fd.title) < MinTitleLen
                     THEN "Baslik en az 3 karakter olmalidir"
                     ELSE Undefined,
            description |->
                IF trim(fd.description) = <<>> THEN "Aciklama zorunludur"
                ELSE IF Len(fd.description) < MinDescriptionLen
                     THEN "Aciklama en az 10 karakter olmalidir"
                     ELSE Undefined,
            image |->
                IF fd.image # <<>> /\ ~isValidUrl(fd.image)
                THEN "Gecerli bir URL giriniz" ELSE Undefined,
            link |->
                IF fd.link # <<>> /\ ~isValidUrl(fd.link)
                THEN "Gecerli bir URL giriniz" ELSE Undefined ]
    IN  [f \in {k \in DOMAIN msg : msg[k] # Undefined} |-> msg[f]]

\* The draft handleEdit builds from a project
FormOf(project) ==
    [title |-> project.title, description |-> project.description,
     image |-> project.image, link |-> project.link, tags |-> project.tags]

\* const projectData = { ...formData, tags: formData.tags }
projectData(fd) ==
    [title |-> fd.title, description |-> fd.description, image |-> fd.image,
     link |-> fd.link, tags |-> fd.tags]

(* projectsApi: the remote service, as the specification describes it *)
ApiCreate(srv, data, id, date) ==
    Append(srv, [id |-> id, title |-> data.title, description |-> data.description,
                 image |-> data.image, link |-> data.link, date |-> date,
                 tags |-> data.tags])

ApiHas(srv, id) == \E i \in 1..Len(srv) : srv[i].id = id

ApiUpdate(srv, id, data) ==
    [i \in 1..Len(srv) |->
        IF srv[i].id = id
        THEN [id |-> id, title |-> data.title, description |-> data.description,
              image |-> data.image, link |-> data.link, date |-> srv[i].date,
              tags |-> data.tags]
        ELSE srv[i]]

ApiDelete(srv, id) == SelectSeq(srv, LAMBDA p : p.id # id)

\* A handler without its finally block: loading keeps the value it has
finallyLoadingSkipped == loading

\* finally { setLoading(false) }
finallyLoading == FALSE

\* Controls that are never disabled
disabledNever == FALSE

\* disabled={loading} on the inputs and the buttons
disabled == loading

\* A wrong resetForm: the tags of the draft survive
resetFormKeepsTags ==
    [editingProject |-> <<>>, formData |-> [EmptyForm EXCEPT !.tags = formData.tags]]

\* A wrong resetForm: the draft is emptied, the edited project is kept
resetFormKeepsEditing == [editingProject |-> editingProject, formData |-> EmptyForm]

\* resetForm: setEditingProject(null) and an empty draft
resetForm == [editingProject |-> <<>>, formData |-> EmptyForm]

\* A wrong loadProjects: a failed load empties the list
ProjectsAfterLoadClears(ok, data, old) == IF ok THEN data ELSE <<>>

\* loadProjects: setProjects(data) in the try block, nothing of it in the catch
ProjectsAfterLoad(ok, data, old) == IF ok THEN data ELSE old

\* useEffect(() => { loadProjects(); }, []) up to the await
ProjMount ==
    /\ page = "projects"
    /\ projPc = "init"
    /\ loading' = TRUE
    /\ request' = <<Call("getAll", <<>>, EmptyForm)>>
    /\ projPc' = "mountLoad"
    /\ lastOp' = Op("projMount", <<>>)
    /\ UNCHANGED <<blogVars, envVars, imgVars, confirmed, clock, projects, editingProject, error,
                   formData, formErrors, server, nextId>>

\* projectsApi.getAll() settles: the rest of loadProjects and of its caller
ProjLoadDone ==
    /\ page = "projects"
    /\ projPc \in {"mountLoad", "submitLoad", "deleteLoad"}
    /\ \E ok \in BOOLEAN :
          /\ projects' = ProjectsAfterLoad(ok, server, projects)
          /\ error' = (IF ok THEN error ELSE LoadErrorMsg)
          /\ lastOp' = Op(IF ok THEN projPc \o "Ok" ELSE projPc \o "Fail", <<>>)
    /\ IF projPc = "submitLoad"
       THEN /\ editingProject' = resetForm.editingProject
            /\ formData' = resetForm.formData
       ELSE UNCHANGED <<editingProject, formData>>
    /\ loading' = finallyLoading
    /\ request' = <<>>
    /\ projPc' = "idle"
    /\ confirmed' = FALSE
    /\ UNCHANGED <<blogVars, envVars, imgVars, clock, formErrors, server, nextId>>

ProjChangeTitle ==
    /\ page = "projects"
    /\ projPc # "init" /\ ~disabled
    /\ \E v \in inputs.title :
          /\ v # formData.title
          /\ formData' = [formData EXCEPT !.title = v]
    /\ formErrors' = ClearTitleError(formErrors)
    /\ lastOp' = Op("projChange", <<>>)
    /\ UNCHANGED <<blogVars, envVars, imgVars, confirmed, clock, projPc, projects, editingProject,
                   loading, error, request, server, nextId>>

ProjChangeDescription ==
    /\ page = "projects"
    /\ projPc # "init" /\ ~disabled
    /\ \E v \in inputs.description :
          /\ v # formData.description
          /\ formData' = [formData EXCEPT !.description = v]
    /\ lastOp' = Op("projChange", <<>>)
    /\ UNCHANGED <<blogVars, envVars, imgVars, confirmed, clock, projPc, projects, editingProject,
                   loading, error, formErrors, request, server, nextId>>

ProjChangeImage ==
    /\ page = "projects"
    /\ projPc # "init" /\ ~disabled
    /\ \E v \in inputs.image :
          /\ v # formData.image
          /\ formData' = [formData EXCEPT !.image = v]
    /\ lastOp' = Op("projChange", <<>>)
    /\ UNCHANGED <<blogVars, envVars, imgVars, confirmed, clock, projPc, projects, editingProject,
                   loading, error, formErrors, request, server, nextId>>

ProjChangeLink ==
    /\ page = "projects"
    /\ projPc # "init" /\ ~disabled
    /\ \E v \in inputs.link :
          /\ v # formData.link
          /\ formData' = [formData EXCEPT !.link = v]
    /\ lastOp' = Op("projChange", <<>>)
    /\ UNCHANGED <<blogVars, envVars, imgVars, confirmed, clock, projPc, projects, editingProject,
                   loading, error, formErrors, request, server, nextId>>

\* The tags input carries no disabled attribute: it is live whenever the form
\* is rendered, that is unless (loading && !projects.length)
ProjChangeTags ==
    /\ page = "projects"
    /\ projPc # "init" /\ ~(loading /\ projects = <<>>)
    /\ \E v \in inputs.tags :
          /\ TagsArray(v) # formData.tags
          /\ formData' = [formData EXCEPT !.tags = TagsArray(v)]
    /\ lastOp' = Op("projChangeTags", <<>>)
    /\ UNCHANGED <<blogVars, envVars, imgVars, confirmed, clock, projPc, projects, editingProject,
                   loading, error, formErrors, request, server, nextId>>

\* handleSubmit up to its first await
ProjSubmit ==
    /\ page = "projects"
    /\ projPc # "init" /\ ~disabled
    /\ LET errors == ProjErrors(formData)
       IN  /\ formErrors' = errors
           /\ IF DOMAIN errors # {}
              THEN /\ lastOp' = Op("projSubmitRejected", <<>>)
                   /\ UNCHANGED <<projPc, loading, error, request>>
              ELSE /\ editingProject = <<>> => nextId <= MaxProjects
                   /\ loading' = TRUE
                   /\ error' = NoError
                   /\ request' = IF editingProject # <<>>
                                 THEN <<Call("update", editingProject[1].id,
                                             projectData(formData))>>
                                 ELSE <<Call("create", <<>>, projectData(formData))>>
                   /\ projPc' = "submitWrite"
                   /\ lastOp' = Op("projSubmit", <<>>)
    /\ UNCHANGED <<blogVars, envVars, imgVars, confirmed, clock, projects, editingProject, formData,
                   server, nextId>>

\* projectsApi.create / update settles: catch and finally, or on to loadProjects
ProjSubmitWriteDone ==
    /\ page = "projects"
    /\ projPc = "submitWrite"
    /\ LET call == request[1]
       IN  \E ok \in BOOLEAN :
              /\ ok /\ call.op = "update" => ApiHas(server, call.id)
              /\ IF ok
                 THEN /\ IF call.op = "create"
                         THEN /\ server' = ApiCreate(server, call.data,
                                                     toString(nextId), toISOString(clock))
                              /\ nextId' = nextId + 1
                         ELSE /\ server' = ApiUpdate(server, call.id, call.data)
                              /\ nextId' = nextId
                      /\ loading' = TRUE
                      /\ request' = <<Call("getAll", <<>>, EmptyForm)>>
                      /\ projPc' = "submitLoad"
                      /\ error' = error
                      /\ lastOp' = Op("projWriteOk", <<>>)
                 ELSE /\ error' = SubmitErrorMsg
                      /\ loading' = finallyLoading
                      /\ request' = <<>>
                      /\ projPc' = "idle"
                      /\ lastOp' = Op("projWriteFail", <<>>)
                      /\ UNCHANGED <<server, nextId>>
    /\ UNCHANGED <<blogVars, envVars, imgVars, confirmed, clock, projects, editingProject, formData,
                   formErrors>>

ProjEdit ==
    /\ page = "projects"
    /\ projPc # "init" /\ ~disabled
    /\ \E i \in 1..Len(projects) :
          /\ editingProject' = <<projects[i]>>
          /\ formData' = FormOf(projects[i])
    /\ lastOp' = Op("projEdit", <<>>)
    /\ UNCHANGED <<blogVars, envVars, imgVars, confirmed, clock, projPc, projects, loading, error,
                   formErrors, request, server, nextId>>

\* handleDelete up to its first await; answer is what window.confirm returns
ProjDelete ==
    /\ page = "projects"
    /\ projPc # "init" /\ ~disabled
    /\ \E i \in 1..Len(projects), answer \in BOOLEAN :
          IF ~answer
          THEN /\ lastOp' = Op("projDeleteDeclined", <<>>)
               /\ UNCHANGED <<projPc, loading, error, request, confirmed>>
          ELSE /\ confirmed' = TRUE
               /\ loading' = TRUE
               /\ error' = NoError
               /\ request' = <<Call("delete", projects[i].id, EmptyForm)>>
               /\ projPc' = "deleteWrite"
               /\ lastOp' = Op("projDelete", <<>>)
    /\ UNCHANGED <<blogVars, envVars, imgVars, clock, projects, editingProject, formData,
                   formErrors, server, nextId>>

\* projectsApi.delete settles
ProjDeleteWriteDone ==
    /\ page = "projects"
    /\ projPc = "deleteWrite"
    /\ \E ok \in BOOLEAN :
          IF ok
          THEN /\ server' = ApiDelete(server, request[1].id)
               /\ confirmed' = confirmed
               /\ loading' = TRUE
               /\ request' = <<Call("getAll", <<>>, EmptyForm)>>
               /\ projPc' = "deleteLoad"
               /\ error' = error
               /\ lastOp' = Op("projDeleteOk", <<>>)
          ELSE /\ error' = DeleteErrorMsg
               /\ confirmed' = FALSE
               /\ loading' = finallyLoading
               /\ request' = <<>>
               /\ projPc' = "idle"
               /\ lastOp' = Op("projDeleteFail", <<>>)
               /\ UNCHANGED server
    /\ UNCHANGED <<blogVars, envVars, imgVars, clock, projects, editingProject, formData,
                   formErrors, nextId>>

\* The cancel button, rendered when editingProject is set, runs resetForm
ProjCancel ==
    /\ page = "projects"
    /\ projPc # "init" /\ ~disabled
    /\ editingProject # <<>>
    /\ editingProject' = resetForm.editingProject
    /\ formData' = resetForm.formData
    /\ lastOp' = Op("projCancel", <<>>)
    /\ UNCHANGED <<blogVars, envVars, imgVars, confirmed, clock, projPc, projects, loading, error,
                   formErrors, request, server, nextId>>

-----------------------------------------------------------------------------
(* Image *)

\* fallback = '/images/placeholder.png'
DefaultFallback == "/images/placeholder.png"

\* What a caller passes: a source, perhaps a fallback, and any other attribute
\* of an img element in ...props, an onError handler of its own among them
ImageSources == {"/a.png", "/b.png"}
ImageFallbacks == {<<>>, <<"/fb.png">>}
ImagePropsInputs ==
    [src : ImageSources, fallback : ImageFallbacks, onError : BOOLEAN]

NoImageProps == [src |-> "", fallback |-> <<>>, onError |-> FALSE]

\* The fallback parameter after destructuring with its default
fallbackOf(props) ==
    IF props.fallback = <<>> THEN DefaultFallback ELSE props.fallback[1]

\* src={error ? fallback : src}
RenderedSrc(err, props) == IF err THEN fallbackOf(props) ELSE props.src

imgRendered == RenderedSrc(imgError, imgProps)

\* onError={() => setError(true)} followed by {...props}: an onError among
\* the props replaces the component's own handler
OnErrorHandler(props) == IF props.onError THEN "caller" ELSE "setError"

\* First render of an instance
ImageMount ==
    /\ page = "image"
    /\ imgPc = "init"
    /\ imgProps' \in ImagePropsInputs
    /\ imgPc' = "mounted"
    /\ lastOp' = Op("imageMount", <<>>)
    /\ UNCHANGED <<blogVars, projVars, envVars, confirmed, clock, imgError, imgFailed>>

\* The parent renders the instance again, with the same or with other props
ImageRerender ==
    /\ page = "image"
    /\ imgPc = "mounted"
    /\ imgProps' \in ImagePropsInputs
    /\ lastOp' = Op("imageRerender", <<>>)
    /\ UNCHANGED <<blogVars, projVars, envVars, confirmed, clock, imgPc, imgError, imgFailed>>

\* The img element fails to load what it was given and fires its error event
ImageLoadError ==
    /\ page = "image"
    /\ imgPc = "mounted"
    /\ imgError' = (IF OnErrorHandler(imgProps) = "setError" THEN TRUE ELSE imgError)
    /\ imgFailed' = TRUE
    /\ lastOp' = Op("imageLoadError", <<>>)
    /\ UNCHANGED <<blogVars, projVars, envVars, confirmed, clock, imgPc, imgProps>>

-----------------------------------------------------------------------------

Init ==
    /\ page \in {"blog", "projects", "image"}
    /\ clock = 1
    /\ blogPc = "init"
    /\ posts = <<>>
    /\ editingPost = <<>>
    /\ blogFormData = EmptyBlogForm
    /\ blogFormErrors = [f \in {} |-> Undefined]
    /\ storage \in (IF page = "blog" THEN StorageInits ELSE {<<>>})
    /\ projPc = "init"
    /\ projects = <<>>
    /\ editingProject = <<>>
    /\ loading = FALSE
    /\ error = NoError
    /\ formData = EmptyForm
    /\ formErrors = [f \in {} |-> Undefined]
    /\ request = <<>>
    /\ server \in (IF page = "projects" THEN ServerInits ELSE {<<>>})
    /\ nextId = 1
    /\ inputs \in (IF page = "projects" THEN InputProfiles
                   ELSE {CHOOSE p \in InputProfiles : p.image = {}})
    /\ confirmed = FALSE
    /\ imgPc = "init"
    /\ imgProps = NoImageProps
    /\ imgError = FALSE
    /\ imgFailed = FALSE
    /\ lastOp = NoOp

Next ==
    \/ BlogMount
    \/ BlogChangeTitle
    \/ BlogChangeContent
    \/ BlogSubmit
    \/ BlogEdit
    \/ BlogDelete
    \/ BlogCancel
    \/ ProjMount
    \/ ProjLoadDone
    \/ ProjChangeTitle
    \/ ProjChangeDescription
    \/ ProjChangeImage
    \/ ProjChangeLink
    \/ ProjChangeTags
    \/ ProjSubmit
    \/ ProjSubmitWriteDone
    \/ ProjEdit
    \/ ProjDelete
    \/ ProjDeleteWriteDone
    \/ ProjCancel
    \/ ImageMount
    \/ ImageRerender
    \/ ImageLoadError

Spec == Init /\ [][Next]_vars

-----------------------------------------------------------------------------
(* AdminProjects on its own, with every remote call settling at some time: *)
(* a promise of projectsApi that is pending resolves or rejects.           *)

InitProjects == Init /\ page = "projects"

NextProjects ==
    \/ ProjMount
    \/ ProjLoadDone
    \/ ProjChangeTitle
    \/ ProjChangeDescription
    \/ ProjChangeImage
    \/ ProjChangeLink
    \/ ProjChangeTags
    \/ ProjSubmit
    \/ ProjSubmitWriteDone
    \/ ProjEdit
    \/ ProjDelete
    \/ ProjDeleteWriteDone
    \/ ProjCancel

CallsSettle ==
    /\ WF_vars(ProjLoadDone)
    /\ WF_vars(ProjSubmitWriteDone)
    /\ WF_vars(ProjDeleteWriteDone)

SpecProjectsLive == InitProjects /\ [][NextProjects]_vars /\ CallsSettle

-----------------------------------------------------------------------------
(* Validation on its own: a mounted, idle form holding any draft of the menus  *)
(* below and the annotations an earlier attempt left, and then submits.        *)

ValidateTitles ==
    { <<>>, <<" ", " ", " ">>, <<"a", "b">>, <<"a", " ", " ">>, <<"a", "b", "c">> }

ValidateContents ==
    { <<>>, Rep(" ", MinContentLen), Rep("x", MinContentLen - 1),
      Rep("x", MinContentLen), <<"y">> \o Rep(" ", MinContentLen - 1) }

ValidateDescriptions ==
    { <<>>, Rep(" ", MinDescriptionLen), Rep("d", MinDescriptionLen - 1),
      Rep("d", MinDescriptionLen) }

\* "", "not-a-url", "https://example.com/x.png", "http:" and "x:y"
ValidateUrls ==
    { <<>>,
      <<"n", "o", "t", "-", "a", "-", "u", "r", "l">>,
      <<"h", "t", "t", "p", "s", ":", "/", "/", "e", "x", "a", "m", "p", "l", "e",
        ".", "c", "o", "m", "/", "x", ".", "p", "n", "g">>,
      <<"h", "t", "t", "p", ":">>,
      <<"x", ":", "y">> }

ValidateBlogDrafts == [title : ValidateTitles, content : ValidateContents]

ValidateProjDrafts ==
    [title : {<<>>, <<"a", "b">>, <<"a", "b", "c">>},
     description : ValidateDescriptions,
     image : ValidateUrls,
     link : ValidateUrls,
     tags : {<<>>}]

\* Annotations left by an earlier attempt on another draft
PriorBlogErrors ==
    { BlogErrors(EmptyBlogForm), ClearTitleError(BlogErrors(EmptyBlogForm)),
      BlogErrors([title |-> <<"a", "b", "c">>, content |-> Rep("x", MinContentLen)]) }

PriorProjErrors ==
    { ProjErrors(EmptyForm),
      ProjErrors([EmptyForm EXCEPT !.title = <<"a", "b", "c">>,
                                   !.description = Rep("d", MinDescriptionLen),
                                   !.image = <<"h", "t", "t", "p", ":">>,
                                   !.link = <<"h", "t", "t", "p", ":">>]) }

InitValidate ==
    /\ page \in {"blog", "projects"}
    /\ clock = 1
    /\ blogPc = (IF page = "blog" THEN "mounted" ELSE "init")
    /\ posts = <<>>
    /\ editingPost = <<>>
    /\ blogFormData \in (IF page = "blog" THEN ValidateBlogDrafts ELSE {EmptyBlogForm})
    /\ blogFormErrors \in (IF page = "blog" THEN PriorBlogErrors
                           ELSE {[f \in {} |-> Undefined]})
    /\ storage = <<>>
    /\ projPc = (IF page = "projects" THEN "idle" ELSE "init")
    /\ projects = <<>>
    /\ editingProject = <<>>
    /\ loading = FALSE
    /\ error = NoError
    /\ formData \in (IF page = "projects" THEN ValidateProjDrafts ELSE {EmptyForm})
    /\ formErrors \in (IF page = "projects" THEN PriorProjErrors
                       ELSE {[f \in {} |-> Undefined]})
    /\ request = <<>>
    /\ server = <<>>
    /\ nextId = 1
    /\ inputs = CHOOSE p \in InputProfiles : p.image = {}
    /\ confirmed = FALSE
    /\ imgPc = "init"
    /\ imgProps = NoImageProps
    /\ imgError = FALSE
    /\ imgFailed = FALSE
    /\ lastOp = NoOp

NextValidate ==
    \/ BlogSubmit
    \/ ProjSubmit

SpecValidate == InitValidate /\ [][NextValidate]_vars

-----------------------------------------------------------------------------
(* Properties *)

Ids(ps) == {ps[i].id : i \in 1..Len(ps)}

\* An error annotation the page shows: a key of the errors object with a message
Annotated(errs) == {f \in DOMAIN errs : errs[f] # Undefined}

\* The validation rules, field by field
TitleOk(t) == trim(t) # <<>> /\ Len(t) >= MinTitleLen
DescriptionOk(d) == trim(d) # <<>> /\ Len(d) >= MinDescriptionLen
ContentOk(c) == trim(c) # <<>> /\ Len(c) >= MinContentLen
UrlOk(u) == u = <<>> \/ UrlParses(u)

BlogViolations(fd) ==
    {f \in {"title", "content"} :
        \/ f = "title" /\ ~TitleOk(fd.title)
        \/ f = "content" /\ ~ContentOk(fd.content)}

ProjViolations(fd) ==
    {f \in {"title", "description", "image", "link"} :
        \/ f = "title" /\ ~TitleOk(fd.title)
        \/ f = "description" /\ ~DescriptionOk(fd.description)
        \/ f = "image" /\ ~UrlOk(fd.image)
        \/ f = "link" /\ ~UrlOk(fd.link)}

\* C1: in AdminBlog a submit in the Creating state with a valid draft appends
\* exactly one record that carries the draft's title and content and an id no
\* record of the collection carries yet (so that ids stay pairwise distinct).
C1_CreateAppendsFreshId ==
    [][lastOp'.kind = "blogCreate" =>
          /\ Len(posts') = Len(posts) + 1
          /\ SubSeq(posts', 1, Len(posts)) = posts
          /\ posts'[Len(posts')].title = blogFormData.title
          /\ posts'[Len(posts')].content = blogFormData.content
          /\ posts'[Len(posts')].id \notin Ids(posts)]_vars

\* C2: in AdminBlog, start-edit on a record r of the collection followed by a
\* submit with a valid draft keeps length and order, puts the draft's title and
\* content with r's id and date at r's position, and changes no other record.
C2_UpdateReplacesOnlyEdited ==
    [][(/\ lastOp'.kind = "blogUpdate"
        /\ \E i \in 1..Len(posts) : posts[i] = editingPost[1]) =>
          \E i \in 1..Len(posts) :
              /\ posts[i] = editingPost[1]
              /\ posts' = [posts EXCEPT ![i] =
                              [id |-> posts[i].id,
                               title |-> blogFormData.title,
                               content |-> blogFormData.content,
                               date |-> posts[i].date]]]_vars

\* C3: in AdminBlog delete(id) leaves exactly the records with another id, in
\* their order, in the collection and in the persisted copy; with no record of
\* that id the collection is unchanged, so a second delete(id) changes nothing.
C3_DeleteRemovesExactlyId ==
    [][lastOp'.kind = "blogDelete" =>
          LET id == lastOp'.id
              keep == {i \in 1..Len(posts) : posts[i].id # id}
          IN  /\ Len(posts') = Cardinality(keep)
              /\ \A i \in keep :
                    posts'[Cardinality({j \in keep : j <= i})] = posts[i]
              /\ id \notin Ids(posts')
              /\ (id \notin Ids(posts) => posts' = posts)
              /\ storage' # <<>>
              /\ JSONparse(storage'[1]) = [ok |-> TRUE, value |-> posts']]_vars

C3_Witness ==
    /\ lastOp.kind = "blogDelete"
    /\ lastOp.id # AbsentId
    /\ posts # <<>>

\* C4: for both record kinds no record leaves the store by a delete unless the
\* confirmation prompt was shown for that delete and answered yes.
C4_DeleteOnlyAfterConfirm ==
    [][(Len(posts') < Len(posts) \/ Len(server') < Len(server)) => confirmed]_vars

\* C5: in both forms a submit whose draft fails validation performs no store
\* operation and leaves collection, persistence, draft and Creating/Editing
\* state as they were; only the error annotations may change.
C5_RejectedSubmitTouchesNothing ==
    [][/\ (/\ lastOp'.kind \in {"projSubmitRejected", "projSubmit"}
           /\ ProjViolations(formData) # {}) =>
              /\ lastOp'.kind = "projSubmitRejected"
              /\ UNCHANGED <<projPc, projects, editingProject, loading, error,
                             formData, request, server, nextId>>
       /\ (/\ lastOp'.kind \in {"blogSubmitRejected", "blogCreate", "blogUpdate"}
           /\ BlogViolations(blogFormData) # {}) =>
              /\ lastOp'.kind = "blogSubmitRejected"
              /\ UNCHANGED <<blogPc, posts, editingPost, blogFormData, storage>>]_vars

C5_Witness ==
    /\ lastOp.kind = "projSubmitRejected"
    /\ editingProject # <<>>
    /\ projects # <<>>
    /\ Annotated(formErrors) # {}

\* C6: validateForm depends on the draft alone and checks every field on every
\* call: after a submit attempt exactly the fields that break their rule are
\* annotated, whatever the other fields hold and whatever was annotated before,
\* and the submit is accepted if and only if no field is.
C6_AnnotationsAreViolations ==
    [][/\ lastOp'.kind \in {"projSubmitRejected", "projSubmit"} =>
              /\ Annotated(formErrors') = ProjViolations(formData)
              /\ DOMAIN formErrors' = ProjViolations(formData)
              /\ (lastOp'.kind = "projSubmit") = (ProjViolations(formData) = {})
       /\ lastOp'.kind \in {"blogSubmitRejected", "blogCreate", "blogUpdate"} =>
              /\ Annotated(blogFormErrors') = BlogViolations(blogFormData)
              /\ DOMAIN blogFormErrors' = BlogViolations(blogFormData)
              /\ (lastOp'.kind # "blogSubmitRejected")
                    = (BlogViolations(blogFormData) = {})]_vars

C6_Witness ==
    /\ lastOp.kind = "projSubmitRejected"
    /\ Annotated(formErrors) = {"title", "description"}
    /\ formData.image # <<>>
    /\ formData.link # <<>>

\* C7: for every validated field of either form, changing the field's draft
\* value while it is annotated removes that annotation and leaves the
\* annotations of the other fields as they were.
C7_ChangeClearsOwnAnnotation ==
    [][/\ lastOp'.kind = "projChange" =>
              \A f \in Annotated(formErrors) :
                  IF formData'[f] # formData[f]
                  THEN f \notin Annotated(formErrors')
                  ELSE f \in Annotated(formErrors') /\ formErrors'[f] = formErrors[f]
       /\ lastOp'.kind \in {"blogChangeTitle", "blogChangeContent"} =>
              \A f \in Annotated(blogFormErrors) :
                  IF blogFormData'[f] # blogFormData[f]
                  THEN f \notin Annotated(blogFormErrors')
                  ELSE /\ f \in Annotated(blogFormErrors')
                       /\ blogFormErrors'[f] = blogFormErrors[f]]_vars

\* C8: in AdminBlog a stored value that does not parse is treated at mount as
\* an absent one: no error leaves the load, posts is empty, the form is usable.
C8_MalformedStorageIsEmpty ==
    (page = "blog" /\ blogPc # "init" /\ storage = <<MalformedText>>) =>
        (blogPc = "mounted" /\ posts = <<>>)

\* C9 as claimed: after every submit whose write succeeded the controller is
\* Creating with an empty draft and the collection shown is the one the store
\* holds after the write, in AdminProjects also when the follow-up getAll fails.
C9_SubmitShowsWrite ==
    /\ lastOp.kind \in {"submitLoadOk", "submitLoadFail"} =>
          /\ editingProject = <<>>
          /\ formData = EmptyForm
          /\ projects = server
    /\ lastOp.kind \in {"blogCreate", "blogUpdate"} =>
          /\ editingPost = <<>>
          /\ blogFormData = EmptyBlogForm
          /\ storage = <<JSONstringify(posts)>>

\* C9 as amended: after a submit whose write succeeded the controller is
\* Creating with an empty draft; the collection shown is the store's when the
\* follow-up getAll succeeded (AdminProjects) or always (AdminBlog); when the
\* getAll failed, projects is what it was and the load error is shown.
C9_SubmitShowsWriteIfReloaded ==
    [][/\ lastOp'.kind \in {"submitLoadOk", "submitLoadFail"} =>
              /\ editingProject' = <<>>
              /\ formData' = EmptyForm
              /\ ~loading'
              /\ IF lastOp'.kind = "submitLoadOk"
                 THEN projects' = server'
                 ELSE projects' = projects /\ error' # NoError
       /\ lastOp'.kind \in {"blogCreate", "blogUpdate"} =>
              /\ editingPost' = <<>>
              /\ blogFormData' = EmptyBlogForm
              /\ storage' = <<JSONstringify(posts')>>]_vars

C9_Witness ==
    /\ lastOp.kind = "submitLoadFail"
    /\ projects # server
    /\ editingProject = <<>>

C11_FallbackAfterFailure ==
    imgPc = "mounted" =>
        IF imgFailed
        THEN imgError /\ imgRendered = fallbackOf(imgProps)
        ELSE ~imgError /\ imgRendered = imgProps.src

\* C12: in AdminBlog a submit with a valid draft in the Editing state, when no
\* record carries the retained id, adds, changes and removes no record and
\* signals no error, and still leaves the controller Creating with an empty
\* draft: the submitted draft is dropped.
C12_UpdateOfMissingIsSilent ==
    [][(/\ lastOp'.kind = "blogUpdate"
        /\ editingPost[1].id \notin Ids(posts)) =>
          /\ posts' = posts
          /\ storage' = <<JSONstringify(posts)>>
          /\ editingPost' = <<>>
          /\ blogFormData' = EmptyBlogForm
          /\ blogPc' = "mounted"
          /\ Annotated(blogFormErrors') = {}]_vars

C12_Witness ==
    /\ lastOp.kind = "blogUpdate"
    /\ lastOp.id \notin Ids(posts)
    /\ posts # <<>>
    /\ editingPost = <<>>
    /\ blogFormData = EmptyBlogForm

\* The handlers a user starts from the buttons of AdminProjects
UserOps ==
    {"projSubmit", "projSubmitRejected", "projEdit", "projDelete",
     "projDeleteDeclined", "projCancel"}

\* C13: in AdminProjects loading is true whenever a remote call is
\* outstanding, and submit, start-edit, delete and cancel only start while
\* loading is false, hence while no call is outstanding and no other handler
\* is under way: at most one operation is in progress at a time.
C13_OneOperationAtATime ==
    [][/\ request' # <<>> => loading'
       /\ projPc' \notin {"init", "idle"} => loading'
       /\ Len(request') <= 1
       /\ lastOp'.kind \in UserOps =>
              /\ ~loading
              /\ request = <<>>
              /\ projPc = "idle"]_vars

C13_Witness ==
    /\ lastOp.kind = "projDelete"
    /\ request # <<>>
    /\ request[1].op = "delete"
    /\ loading
    /\ editingProject # <<>>
    /\ projects # <<>>

\* The collection held under the 'blogPosts' key; an absent key is the empty one
PersistedPosts(st) ==
    IF st = <<>> THEN [ok |-> TRUE, value |-> <<>>] ELSE JSONparse(st[1])

\* C14: in AdminBlog, once the mount load is done, the collection persisted
\* under 'blogPosts' equals posts (an absent key being the empty collection):
\* create, update and delete write exactly the new posts, and start-edit,
\* cancel, field edits and rejected submits change neither posts nor the key.
C14_PersistedEqualsPosts ==
    [][/\ blogPc' = "mounted" =>
              PersistedPosts(storage') = [ok |-> TRUE, value |-> posts']
       /\ lastOp'.kind \in {"blogCreate", "blogUpdate", "blogDelete"} =>
              storage' = <<JSONstringify(posts')>>
       /\ lastOp'.kind \in {"blogEdit", "blogCancel", "blogChangeTitle",
                            "blogChangeContent", "blogSubmitRejected"} =>
              UNCHANGED <<posts, storage>>]_vars

C14_Witness ==
    /\ blogPc = "mounted"
    /\ lastOp.kind = "blogUpdate"
    /\ Len(posts) = 2
    /\ posts[1].title # StoredPost.title
    /\ PersistedPosts(storage).value = posts

LoadOkOps == {"mountLoadOk", "submitLoadOk", "deleteLoadOk"}

\* C15: in AdminProjects projects changes only when a getAll completes
\* successfully, and is then that call's response; starting a call, a failed
\* getAll and the completion of create, update or delete leave it unchanged,
\* and it is empty until the first successful getAll.
C15_ProjectsIsLastLoad ==
    [][/\ projects' # projects => lastOp'.kind \in LoadOkOps
       /\ lastOp'.kind \in LoadOkOps => projects' = server'
       /\ lastOp'.kind \in {"projMount", "projSubmit", "projDelete", "projWriteOk",
                            "projWriteFail", "projDeleteOk", "projDeleteFail",
                            "mountLoadFail", "submitLoadFail", "deleteLoadFail"} =>
              projects' = projects
       /\ projPc' \in {"init", "mountLoad"} => projects' = <<>>]_vars

C15_Witness ==
    /\ lastOp.kind = "submitLoadOk"
    /\ Len(projects) = 2
    /\ projects = server

\* C16: in AdminProjects a submit with a valid draft in the Editing state
\* issues one update whose id is the id of the record start-edit selected and
\* whose payload carries that record's creation date with the draft's title,
\* description, image, link and tags; in the Creating state it issues one
\* create and no update.
C16_UpdateCarriesIdAndDate ==
    [][lastOp'.kind = "projSubmit" =>
          /\ Len(request') = 1
          /\ IF editingProject # <<>>
             THEN /\ request'[1].op = "update"
                  /\ request'[1].id = editingProject[1].id
                  /\ \A f \in {"title", "description", "image", "link", "tags"} :
                        request'[1].data[f] = formData[f]
                  /\ "date" \in DOMAIN request'[1].data
                  /\ request'[1].data.date = editingProject[1].date
             ELSE /\ request'[1].op = "create"
                  /\ \A f \in {"title", "description", "image", "link", "tags"} :
                        request'[1].data[f] = formData[f]]_vars

\* C17: in both forms cancel is offered in the Editing state only; it leaves
\* the controller Creating with every draft field empty (tags included) and
\* changes neither the collection nor its persistence nor, in AdminProjects,
\* loading and the error banner, and it issues no store operation.
C17_CancelOnlyResetsDraft ==
    [][/\ lastOp'.kind = "projCancel" =>
              /\ editingProject # <<>>
              /\ editingProject' = <<>>
              /\ formData' = EmptyForm
              /\ UNCHANGED <<projects, loading, error, request, projPc, server, nextId>>
       /\ lastOp'.kind = "blogCancel" =>
              /\ editingPost # <<>>
              /\ editingPost' = <<>>
              /\ blogFormData' = EmptyBlogForm
              /\ UNCHANGED <<posts, storage, blogPc>>]_vars

C17_Witness ==
    /\ lastOp.kind = "projCancel"
    /\ editingProject = <<>>
    /\ formData = EmptyForm
    /\ projects # <<>>
    /\ error # NoError

\* C18: in AdminProjects, when every remote call settles, every mount load,
\* submit and confirmed delete leads to a state with loading false, no call
\* outstanding and no handler under way, whichever way the calls end.
C18_LoadingEnds ==
    loading ~> (~loading /\ request = <<>> /\ projPc = "idle")

C18_Witness ==
    /\ lastOp.kind = "deleteLoadFail"
    /\ ~loading
    /\ request = <<>>
    /\ error = LoadErrorMsg

\* C19: in both forms, whenever the controller is Editing, the collection
\* holds a record whose id is the retained one.
C19_EditingRecordExists ==
    /\ editingPost # <<>> => editingPost[1].id \in Ids(posts)
    /\ editingProject # <<>> => editingProject[1].id \in Ids(projects)

====
